---- MODULE Spec2Model ----
(***************************************************************************)
(* Model of the climate API of app.py: five Flask request handlers over a  *)
(* read-only measurement/station dataset.  Strings are sequences of       *)
(* character codes (ASCII), so that the textual date comparisons of the    *)
(* SQL queries and the parsing done by strptime are distinct operations.   *)
(***************************************************************************)
EXTENDS Integers, Sequences, FiniteSets, TLC

VARIABLES dataset, request, response, sessionsOpened, sessionsClosed, nRequests

vars == <<dataset, request, response, sessionsOpened, sessionsClosed, nRequests>>

\* ---- bounds of the model ------------------------------------------------
MaxRows == 3
MaxRequests == 1

\* ---- character strings --------------------------------------------------
\* the NULL / None value; a present value v is <<v>>
None == <<>>

Digit(n) == 48 + n

IsDigit(c) == c \in 48..57

Val(c) == c - 48

Dash == <<45>>

Pad2(n) == <<Digit(n \div 10), Digit(n % 10)>>

Pad4(n) == <<Digit(n \div 1000), Digit((n \div 100) % 10), Digit((n \div 10) % 10), Digit(n % 10)>>

Unpadded(n) == IF n < 10 THEN <<Digit(n)>> ELSE Pad2(n)

\* "%Y-%m-%d" text of a date, the form in which Measurement.date is stored
IsoDate(y, m, d) == Pad4(y) \o Dash \o Pad2(m) \o Dash \o Pad2(d)

\* the same date written without zero padding, e.g. 2016-3-1
LooseDate(y, m, d) == Pad4(y) \o Dash \o Unpadded(m) \o Dash \o Unpadded(d)

Min(S) == CHOOSE x \in S : \A y \in S : x <= y

\* byte-wise text comparison (SQLite BINARY collation): a < b
StrLT(a, b) ==
    LET n == IF Len(a) < Len(b) THEN Len(a) ELSE Len(b)
        diff == {i \in 1..n : a[i] # b[i]}
    IN  IF diff = {} THEN Len(a) < Len(b)
        ELSE a[Min(diff)] < b[Min(diff)]

StrLE(a, b) == a = b \/ StrLT(a, b)

\* ---- datetime -----------------------------------------------------------
ValueError == [ok |-> FALSE, year |-> 0, month |-> 0, day |-> 0]

IsLeap(y) == y % 4 = 0 /\ (y % 100 # 0 \/ y % 400 = 0)

DaysInMonth(y, m) ==
    IF m = 2 THEN (IF IsLeap(y) THEN 29 ELSE 28)
    ELSE IF m \in {4, 6, 9, 11} THEN 30 ELSE 31

\* dt.datetime(year, month, day): ValueError when the date does not exist
Datetime(y, m, d) ==
    IF y >= 1 /\ y <= 9999 /\ m \in 1..12 /\ d >= 1 /\ d <= DaysInMonth(y, m)
    THEN [ok |-> TRUE, year |-> y, month |-> m, day |-> d]
    ELSE ValueError

\* value of a %m token: 1[0-2] | 0[1-9] | [1-9]; 0 when the token does not match
MonthToken(t) ==
    IF Len(t) = 1 THEN (IF t[1] \in 49..57 THEN Val(t[1]) ELSE 0)
    ELSE IF Len(t) = 2 THEN
        (IF t[1] = 49 /\ t[2] \in 48..50 THEN 10 + Val(t[2])
         ELSE IF t[1] = 48 /\ t[2] \in 49..57 THEN Val(t[2])
         ELSE 0)
    ELSE 0

\* value of a %d token: 3[0-1] | [1-2]\d | 0[1-9] | [1-9] | " "[1-9]
DayToken(t) ==
    IF Len(t) = 1 THEN (IF t[1] \in 49..57 THEN Val(t[1]) ELSE 0)
    ELSE IF Len(t) = 2 THEN
        (IF t[1] = 51 /\ t[2] \in 48..49 THEN 30 + Val(t[2])
         ELSE IF t[1] \in 49..50 /\ IsDigit(t[2]) THEN 10 * Val(t[1]) + Val(t[2])
         ELSE IF t[1] \in {48, 32} /\ t[2] \in 49..57 THEN Val(t[2])
         ELSE 0)
    ELSE 0

\* dt.datetime.strptime(s, "%Y-%m-%d")
Strptime(s) ==
    LET n == Len(s)
        mLen == IF n >= 7 /\ s[7] = 45 THEN 1
                ELSE IF n >= 8 /\ s[8] = 45 THEN 2 ELSE 0
        y == 1000 * Val(s[1]) + 100 * Val(s[2]) + 10 * Val(s[3]) + Val(s[4])
        m == MonthToken(SubSeq(s, 6, 5 + mLen))
        d == DayToken(SubSeq(s, 7 + mLen, n))
    IN  IF n >= 5 /\ (\A i \in 1..4 : IsDigit(s[i])) /\ s[5] = 45
           /\ mLen > 0 /\ m > 0 /\ d > 0
        THEN Datetime(y, m, d)
        ELSE ValueError

\* chronological order of two datetimes: a > b
DateGT(a, b) ==
    \/ a.year > b.year
    \/ a.year = b.year /\ a.month > b.month
    \/ a.year = b.year /\ a.month = b.month /\ a.day > b.day

\* text bound to the query for a datetime parameter: "YYYY-MM-DD 00:00:00.000000"
DatetimeParam(t) ==
    IsoDate(t.year, t.month, t.day) \o <<32>> \o Pad2(0) \o <<58>> \o Pad2(0)
        \o <<58>> \o Pad2(0) \o <<46>> \o Pad2(0) \o Pad2(0) \o Pad2(0)

\* ---- the dataset (hawaii.sqlite, read only) ------------------------------
StationIds == {"USC00519281", "USC00519397"}

\* rows of the station table
StationTable ==
    << [id |-> 1, station |-> "USC00519397", name |-> "WAIKIKI 717.2, HI US",
        latitude |-> 21, longitude |-> -157, elevation |-> 3],
       [id |-> 2, station |-> "USC00519281", name |-> "WAIHEE 837.5, HI US",
        latitude |-> 21, longitude |-> -158, elevation |-> 33] >>

\* observation days of the sample rows (a leap day and the days around it)
SampleDays == {<<2015, 2, 28>>, <<2015, 3, 1>>, <<2016, 2, 28>>, <<2016, 2, 29>>, <<2016, 3, 1>>}

\* a row of the measurement table; prcp and tobs are <<>> (NULL) or <<value>>
MeasurementRow(s, day) ==
    [station |-> s,
     date |-> IsoDate(day[1], day[2], day[3]),
     prcp |-> IF s = "USC00519397" /\ day[3] = 28 THEN <<>> ELSE <<day[2] + day[3]>>,
     tobs |-> <<60 + (day[3] % 8) + (IF s = "USC00519281" THEN 5 ELSE 0)>>]

MeasurementUniverse == {MeasurementRow(s, day) : s \in StationIds, day \in SampleDays}

Datasets == {S \in SUBSET MeasurementUniverse : Cardinality(S) >= 1 /\ Cardinality(S) <= MaxRows}

\* func.min / func.max over the text column Measurement.date
MinDate(rows) == CHOOSE d \in {r.date : r \in rows} : \A r \in rows : StrLE(d, r.date)

MaxDate(rows) == CHOOSE d \in {r.date : r \in rows} : \A r \in rows : StrLE(r.date, d)

\* .order_by(Measurement.date).all(): every ordering of the rows that ascends by
\* date (rows of equal date come in whatever order the engine yields them)
OrderByDate(rows) ==
    {f \in [1..Cardinality(rows) -> rows] :
        /\ \A i, j \in 1..Cardinality(rows) : i # j => f[i] # f[j]
        /\ \A i, j \in 1..Cardinality(rows) : i < j => StrLE(f[i].date, f[j].date)}

RECURSIVE SumTobs(_)
SumTobs(rows) ==
    IF rows = {} THEN 0
    ELSE LET r == CHOOSE x \in rows : TRUE IN r.tobs[1] + SumTobs(rows \ {r})

\* Measurement.date.between(start_date, end_date), compared as text
Between(date, start_date, end_date) == StrLE(start_date, date) /\ StrLE(date, end_date)

\* temp_stats: min, avg and max of tobs over the matching rows; all None when no
\* row matches.  avg is kept exact as <<sum, count>>.
temp_stats(rows, start_date, end_date) ==
    LET matched == {r \in rows : Between(r.date, start_date, end_date)}
        valued == {r \in matched : r.tobs # <<>>}
        temps == {r.tobs[1] : r \in valued}
    IN  IF valued = {}
        THEN [matched |-> matched, TMin |-> <<>>, TAvg |-> <<>>, TMax |-> <<>>]
        ELSE [matched |-> matched,
              TMin |-> <<Min(temps)>>,
              TAvg |-> <<SumTobs(valued), Cardinality(valued)>>,
              TMax |-> <<CHOOSE x \in temps : \A y \in temps : y <= x>>]

\* round(TAvg, 1) in tenths: nearest tenth, ties to the even tenth
Round1(avg) ==
    LET q == (10 * avg[1]) \div avg[2]
        r == (10 * avg[1]) % avg[2]
    IN  IF 2 * r < avg[2] THEN q
        ELSE IF 2 * r > avg[2] THEN q + 1
        ELSE IF q % 2 = 0 THEN q ELSE q + 1

\* ---- responses -----------------------------------------------------------
\* what a handler leaves behind: the kind of response (or the exception that
\* escaped it), the values rendered into the body, the interval handed to
\* temp_stats with the rows it matched, and the sessions it opened and closed
NoResponse ==
    [kind |-> "none", exc |-> "", start |-> <<>>, end |-> <<>>,
     TMin |-> None, TAvg |-> None, TMax |-> None, rows |-> <<>>,
     queried |-> FALSE, qStart |-> <<>>, qEnd |-> <<>>, matched |-> {},
     opened |-> 0, closed |-> 0]

\* an exception that no except clause of the handler catches
Unhandled(exc, opened, closed) ==
    [NoResponse EXCEPT !.kind = "unhandled", !.exc = exc,
                       !.opened = opened, !.closed = closed]

\* variant: no except ValueError clause, the exception leaves the handler
ReraiseValueError == Unhandled("ValueError", 1, 0)

\* except ValueError: close the session, "Please enter a valid date format YYYY-mm-dd"
ExceptValueError ==
    [NoResponse EXCEPT !.kind = "InvalidDateFormat", !.opened = 1, !.closed = 1]

\* tobs_start, except DataDateError: "Entered date is later than data available ...
\* Please enter a date earlier than {d_latest}"
DateOutOfRange(d_latest) ==
    [NoResponse EXCEPT !.kind = "DateOutOfRange", !.end = d_latest,
                       !.opened = 1, !.closed = 1]

\* tobs_start_end, except DataDateError: "Start and end dates are outside available
\* date range ... Please enter a period between {d_earliest} and {d_latest}"
DateRangeOutOfBounds(d_earliest, d_latest) ==
    [NoResponse EXCEPT !.kind = "DateRangeOutOfBounds", !.start = d_earliest,
                       !.end = d_latest, !.opened = 1, !.closed = 1]

\* second Session, temp_stats, session.close(), then the f-string with
\* round(TAvg, 1): a TypeError when TAvg is None.  The first session of the
\* handler is rebound and never closed.
RenderStats(rows, start, end) ==
    LET stats == temp_stats(rows, start, end)
        asked == [NoResponse EXCEPT !.queried = TRUE, !.qStart = start, !.qEnd = end,
                                    !.matched = stats.matched,
                                    !.opened = 2, !.closed = 1]
    IN  IF stats.TAvg = None
        THEN [asked EXCEPT !.kind = "unhandled", !.exc = "TypeError"]
        ELSE [asked EXCEPT !.kind = "stats", !.start = start, !.end = end,
                           !.TMin = stats.TMin, !.TMax = stats.TMax,
                           !.TAvg = <<Round1(stats.TAvg)>>]

\* ---- /api/v1.0/<start> ----------------------------------------------------
\* variant: >= in place of > in the check against the latest date
StartNotBeforeLatest(start, d_latest) == ~DateGT(Strptime(d_latest), Strptime(start))

StartAfterLatest(start, d_latest) == DateGT(Strptime(start), Strptime(d_latest))

tobs_start(rows, start) ==
    LET d_latest == MaxDate(rows)
    IN  IF ~Strptime(start).ok THEN ExceptValueError
        ELSE IF StartAfterLatest(start, d_latest) THEN DateOutOfRange(d_latest)
        ELSE RenderStats(rows, start, d_latest)

\* ---- /api/v1.0/<start>/<end> ----------------------------------------------
\* variant: start and end are never exchanged
NeverSwap(start, end) == FALSE

SwapNeeded(start, end) == DateGT(Strptime(start), Strptime(end))

RangeOutside(start, end, d_earliest, d_latest) ==
    /\ DateGT(Strptime(start), Strptime(d_latest))
    /\ DateGT(Strptime(d_earliest), Strptime(end))

ClampStart(start, d_earliest) ==
    IF DateGT(Strptime(d_earliest), Strptime(start)) THEN d_earliest ELSE start

\* variant: end is left as requested
NoClampEnd(end, d_latest) == end

ClampEnd(end, d_latest) ==
    IF DateGT(Strptime(end), Strptime(d_latest)) THEN d_latest ELSE end

tobs_start_end(rows, start, end) ==
    LET d_earliest == MinDate(rows)
        d_latest == MaxDate(rows)
        swap == SwapNeeded(start, end)
        start1 == IF swap THEN end ELSE start
        end1 == IF swap THEN start ELSE end
    IN  IF ~Strptime(start).ok \/ ~Strptime(end).ok THEN ExceptValueError
        ELSE IF RangeOutside(start1, end1, d_earliest, d_latest)
             THEN DateRangeOutOfBounds(d_earliest, d_latest)
        ELSE RenderStats(rows, ClampStart(start1, d_earliest), ClampEnd(end1, d_latest))

\* ---- /api/v1.0/precipitation and /api/v1.0/tobs ----------------------------
\* dt.datetime(d_latest.year - 1, d_latest.month, d_latest.day)
OneYearBefore(d_latest) == Datetime(d_latest.year - 1, d_latest.month, d_latest.day)

\* .filter(Measurement.date > d_1yr): the text column against the bound datetime
AfterDate(date, d_1yr) == StrLT(DatetimeParam(d_1yr), date)

Json(rows) == [NoResponse EXCEPT !.kind = "json", !.rows = rows, !.opened = 1, !.closed = 1]

\* the possible responses of precip (one per ordering the query may yield)
precip(rows) ==
    LET d_1yr == OneYearBefore(Strptime(MaxDate(rows)))
        selected == {r \in rows : AfterDate(r.date, d_1yr)}
    IN  IF ~d_1yr.ok THEN {Unhandled("ValueError", 1, 0)}
        ELSE {Json([i \in DOMAIN results |->
                       [date |-> results[i].date, prcp |-> results[i].prcp]])
                : results \in OrderByDate(selected)}

\* n_station[0][0]: a station whose count(*) no other station's exceeds
MostActive(rows) ==
    {s \in {r.station : r \in rows} :
        \A t \in {r.station : r \in rows} :
            Cardinality({r \in rows : r.station = s}) >= Cardinality({r \in rows : r.station = t})}

\* the possible responses of tobs
tobs(rows) ==
    UNION {
        LET own == {r \in rows : r.station = station_id}
            d_1yr == OneYearBefore(Strptime(MaxDate(own)))
            selected == {r \in own : AfterDate(r.date, d_1yr)}
        IN  IF ~d_1yr.ok THEN {Unhandled("ValueError", 1, 0)}
            ELSE {Json([i \in DOMAIN results |->
                           [station |-> results[i].station, date |-> results[i].date,
                            temperature |-> results[i].tobs]])
                    : results \in OrderByDate(selected)}
        : station_id \in MostActive(rows)}

\* ---- / and /api/v1.0/stations ----------------------------------------------
home(rows) ==
    [NoResponse EXCEPT !.kind = "html", !.start = MinDate(rows), !.end = MaxDate(rows),
                       !.opened = 1, !.closed = 1]

station == Json(StationTable)

\* ---- requests --------------------------------------------------------------
NotADate == <<110, 111, 116, 45, 97, 45, 100, 97, 116, 101>>

\* path parameters tried: padded and unpadded dates inside, before and after the
\* sample days, a day that does not exist, and no date at all
PathStrings ==
    {IsoDate(2016, 3, 1), LooseDate(2016, 3, 1), IsoDate(2015, 3, 1), IsoDate(2015, 2, 29),
     IsoDate(2010, 1, 1), IsoDate(2020, 1, 1), IsoDate(2021, 1, 1), NotADate}

NoRequest == [route |-> "none", start |-> <<>>, end |-> <<>>]

Init ==
    /\ dataset \in Datasets
    /\ request = NoRequest
    /\ response = NoResponse
    /\ sessionsOpened = 0
    /\ sessionsClosed = 0
    /\ nRequests = 0

\* one request served: the handler's response and its sessions
Serve(route, start, end, r) ==
    /\ nRequests < MaxRequests
    /\ request' = [route |-> route, start |-> start, end |-> end]
    /\ response' = r
    /\ sessionsOpened' = sessionsOpened + r.opened
    /\ sessionsClosed' = sessionsClosed + r.closed
    /\ nRequests' = nRequests + 1
    /\ UNCHANGED dataset

Home == Serve("home", <<>>, <<>>, home(dataset))

Precip == \E r \in precip(dataset) : Serve("precip", <<>>, <<>>, r)

Station == Serve("station", <<>>, <<>>, station)

Tobs == \E r \in tobs(dataset) : Serve("tobs", <<>>, <<>>, r)

TobsStart == \E start \in PathStrings : Serve("tobs_start", start, <<>>, tobs_start(dataset, start))

TobsStartEnd ==
    \E start \in PathStrings, end \in PathStrings :
        Serve("tobs_start_end", start, end, tobs_start_end(dataset, start, end))

Next == Home \/ Precip \/ Station \/ Tobs \/ TobsStart \/ TobsStartEnd

Spec == Init /\ [][Next]_vars

\* ---- properties -----------------------------------------------------------
Earliest == Strptime(MinDate(dataset))

Latest == Strptime(MaxDate(dataset))

Parseable(s) == Strptime(s).ok

\* the two request dates in chronological order (the swapped request)
FirstOfRequest ==
    IF DateGT(Strptime(request.start), Strptime(request.end)) THEN request.end ELSE request.start

SecondOfRequest ==
    IF DateGT(Strptime(request.start), Strptime(request.end)) THEN request.start ELSE request.end

\* a sequence of records ascends by its date field
AscendingByDate(rows) ==
    \A i, j \in DOMAIN rows : i < j => ~DateGT(Strptime(rows[i].date), Strptime(rows[j].date))

\* C1: in tobs_start_end, two parseable dates that both lie after the dataset's
\* latest date are answered with the DateRangeOutOfBounds message and no
\* temperature statistics are queried or rendered.
C1_RangeAfterLatestRejected ==
    (/\ request.route = "tobs_start_end"
     /\ Parseable(request.start) /\ Parseable(request.end)
     /\ DateGT(Strptime(request.start), Latest)
     /\ DateGT(Strptime(request.end), Latest))
    => (response.kind = "DateRangeOutOfBounds" /\ ~response.queried)

\* C2: tobs_start and tobs_start_end always end with a response body (statistics
\* or one of the error messages); no exception escapes the handler.
C2_NoExceptionEscapes ==
    request.route \in {"tobs_start", "tobs_start_end"} => response.kind # "unhandled"

\* C3: in tobs_start, for a parseable start, the DateOutOfRange message naming the
\* latest date is returned if and only if start is chronologically after the
\* latest date.
C3_DateOutOfRangeIffAfterLatest ==
    (request.route = "tobs_start" /\ Parseable(request.start))
    => ((response.kind = "DateOutOfRange" /\ response.end = MaxDate(dataset))
            <=> DateGT(Strptime(request.start), Latest))

C3_Witness ==
    /\ request.route = "tobs_start"
    /\ Parseable(request.start)
    /\ DateGT(Strptime(request.start), Latest)
    /\ response.kind = "DateOutOfRange"

\* C4: in both range routes, an unparseable start or end yields the
\* InvalidDateFormat message, no temperature statistics query and no escaping
\* exception.
C4_UnparseableIsInvalidDateFormat ==
    (\/ request.route = "tobs_start" /\ ~Parseable(request.start)
     \/ request.route = "tobs_start_end"
            /\ (~Parseable(request.start) \/ ~Parseable(request.end)))
    => (response.kind = "InvalidDateFormat" /\ ~response.queried)

C4_Witness ==
    /\ request.route = "tobs_start_end"
    /\ Parseable(request.start)
    /\ DateGT(Strptime(request.start), Latest)
    /\ ~Parseable(request.end)
    /\ response.kind = "InvalidDateFormat"

\* C5: in tobs_start_end, a request (start = a, end = b) with a chronologically
\* after b has exactly the outcome of the request (start = b, end = a).
C5_SwappedRequestSameOutcome ==
    (/\ request.route = "tobs_start_end"
     /\ Parseable(request.start) /\ Parseable(request.end)
     /\ DateGT(Strptime(request.start), Strptime(request.end)))
    => response = tobs_start_end(dataset, request.end, request.start)

C5_Witness ==
    /\ request.route = "tobs_start_end"
    /\ Parseable(request.start) /\ Parseable(request.end)
    /\ DateGT(Strptime(request.start), Strptime(request.end))
    /\ response.kind = "stats"
    /\ response.qStart = request.end
    /\ response.qEnd = request.start

\* C6: in tobs_start_end, whenever statistics are queried, the interval handed to
\* temp_stats is the swapped request with start replaced by the earliest date
\* exactly when it is earlier, and end replaced by the latest date exactly when
\* it is later; so earliest <= queried start and queried end <= latest.
C6_QueriedIntervalIsClamped ==
    (request.route = "tobs_start_end" /\ response.queried)
    => (/\ response.qStart = IF DateGT(Earliest, Strptime(FirstOfRequest))
                             THEN MinDate(dataset) ELSE FirstOfRequest
        /\ response.qEnd = IF DateGT(Strptime(SecondOfRequest), Latest)
                           THEN MaxDate(dataset) ELSE SecondOfRequest
        /\ ~DateGT(Earliest, Strptime(response.qStart))
        /\ ~DateGT(Strptime(response.qEnd), Latest))

C6_Witness ==
    /\ request.route = "tobs_start_end"
    /\ response.kind = "stats"
    /\ DateGT(Earliest, Strptime(FirstOfRequest))
    /\ DateGT(Strptime(SecondOfRequest), Latest)
    /\ DateGT(Latest, Earliest)
    /\ response.qStart = MinDate(dataset)
    /\ response.qEnd = MaxDate(dataset)

\* the measurements dated strictly after the same month and day one year before
\* the latest date of the given rows
LastYearOf(rows) ==
    LET d_latest == Strptime(MaxDate(rows))
    IN  {r \in rows :
            DateGT(Strptime(r.date),
                   [year |-> d_latest.year - 1, month |-> d_latest.month, day |-> d_latest.day])}

\* C7: precip returns exactly the measurements (null precipitation included)
\* dated strictly after the latest date minus one calendar year, ascending by
\* date, whatever the latest date is.
C7_PrecipIsLastYear ==
    request.route = "precip"
    => (/\ response.kind = "json"
        /\ Len(response.rows) = Cardinality(LastYearOf(dataset))
        /\ \A r \in LastYearOf(dataset) :
              Cardinality({i \in DOMAIN response.rows :
                              response.rows[i] = [date |-> r.date, prcp |-> r.prcp]})
                = Cardinality({x \in LastYearOf(dataset) : x.date = r.date /\ x.prcp = r.prcp})
        /\ AscendingByDate(response.rows))

\* C8: tobs returns only measurements of a station of highest measurement count,
\* exactly those dated strictly after that station's own latest date minus one
\* year, ascending by date.
C8_TobsIsBusiestStationLastYear ==
    request.route = "tobs"
    => (/\ response.kind = "json"
        /\ \E s \in {r.station : r \in dataset} :
            LET own == {r \in dataset : r.station = s}
            IN  /\ \A t \in {r.station : r \in dataset} :
                      Cardinality({r \in dataset : r.station = t}) <= Cardinality(own)
                /\ Len(response.rows) = Cardinality(LastYearOf(own))
                /\ \A r \in LastYearOf(own) :
                      \E i \in DOMAIN response.rows :
                          response.rows[i] = [station |-> s, date |-> r.date, temperature |-> r.tobs]
        /\ AscendingByDate(response.rows))

\* C9: every session a handler opened is closed when the handler returns or
\* fails, so opened and closed sessions are equal after any sequence of requests.
C9_SessionsAllClosed == sessionsOpened = sessionsClosed

\* C10: in tobs_start, for every accepted start not after the latest date, the
\* statistics are computed over exactly the measurements dated chronologically
\* within [start, latest].
C10_StartRangeIsChronological ==
    (/\ request.route = "tobs_start"
     /\ Parseable(request.start)
     /\ ~DateGT(Strptime(request.start), Latest))
    => (/\ response.queried
        /\ response.matched =
              {r \in dataset : /\ ~DateGT(Strptime(request.start), Strptime(r.date))
                               /\ ~DateGT(Strptime(r.date), Latest)})

====
